---- MODULE Spec2Model ----
(***************************************************************************)
(* A model of trafficdl/model/traffic_flow_prediction/STAGGCN.py.          *)
(*                                                                         *)
(* Tensors are records [ok, shape, data, of]: `data` holds the elements in *)
(* logical row-major order (what torch.reshape and .contiguous() see),     *)
(* `shape` the dimensions.  Indexing, permute, reshape and cat are         *)
(* modelled by their index arithmetic.  A numerical layer (Linear, GATConv,*)
(* MultiheadAttention, the scaler, the loss) is an uninterpreted function: *)
(* its output elements are the symbols [src |-> layer, at |-> position],   *)
(* and `of` records the layer's argument and the dropout mask it drew, so  *)
(* two results are equal exactly when they are the same computation on the *)
(* same input with the same masks.  A raised exception is [ok |-> FALSE,   *)
(* err |-> name].                                                          *)
(***************************************************************************)
EXTENDS Integers, Sequences, FiniteSets, TLC

\* ------------------------------------------------------------------ bounds
MaxBatch == 2
MaxNodes == 2
MaxWindow == 2
MaxFeat == 2
MaxGraphDim == 2
TcnChannels == 2
MaxKernel == 3
MaxLevels == 3
MaxSeqLen == 8

VARIABLES
    \* STAGGCN.__init__ (config and data_feature)
    batch_size, num_nodes, input_window, output_window, feature_dim,
    output_dim, graph_dim, choice,
    \* nn.Module.training of the model and all its submodules
    training,
    \* the last call the framework made: its name, the training flag it ran
    \* under, its batch, the input and
    \* output of the inner STAGGCNModel, the calls it made, what it returned
    op, mode, batch, x_in, outputs, trace, ret,
    \* STCell.forward called on its own: its argument x, its output_list
    \* and its return value
    cell_x, output_list, cell_output,
    \* TemporalConvNet: its construction, the number of TemporalBlocks the
    \* input has passed, and for each time index of the current activation
    \* the set of input time indices its value depends on
    kernel_size, num_levels, tcn_len, level, deps

cfgVars == <<batch_size, num_nodes, input_window, output_window, feature_dim,
             output_dim, graph_dim, choice>>
callVars == <<op, mode, batch, x_in, outputs, trace, ret>>
cellVars == <<cell_x, output_list, cell_output>>
tcnVars == <<kernel_size, num_levels, tcn_len, level, deps>>
vars == <<cfgVars, training, callVars, cellVars, tcnVars>>

\* ------------------------------------------------------------ tensor library
RECURSIVE Numel(_)
Numel(shape) ==
    IF shape = <<>> THEN 1 ELSE shape[1] * Numel(Tail(shape))

Tensor(shape, data, of) ==
    [ok |-> TRUE, shape |-> shape, data |-> data, of |-> of]

Raise(e) ==
    [ok |-> FALSE, err |-> e]

\* the dropout argument of a layer that has none
NoMask ==
    [on |-> FALSE, gen |-> 0]

\* torch.reshape(t, shape): the elements keep their row-major order; the
\* element counts must agree
Reshape(t, shape) ==
    IF Numel(shape) = Len(t.data)
    THEN Tensor(shape, t.data, t.of)
    ELSE Raise("RuntimeError")

\* torch.reshape(t, (-1,) + tail)
ReshapeInfer(t, tail) ==
    LET m == Numel(tail)
    IN  IF m > 0 /\ Len(t.data) % m = 0
        THEN Tensor(<<Len(t.data) \div m>> \o tail, t.data, t.of)
        ELSE Raise("RuntimeError")

\* t[:, :, :, 0] of a 4-D tensor
SelectFeature0(t) ==
    LET F == t.shape[4]
    IN  Tensor(SubSeq(t.shape, 1, 3),
               [i \in 1..(Len(t.data) \div F) |-> t.data[(i - 1) * F + 1]],
               t.of)

\* t.permute(p) of a 3-D tensor, p a permutation of <<1, 2, 3>> (the
\* source's dims plus one): dimension k of the result is dimension p[k] of t
Permute3(t, p) ==
    LET s == [k \in 1..3 |-> t.shape[p[k]]]
        Src(i) ==
            LET o == <<(i - 1) \div (s[2] * s[3]),
                       ((i - 1) \div s[3]) % s[2],
                       (i - 1) % s[3]>>
                c == [d \in 1..3 |-> o[CHOOSE k \in 1..3 : p[k] = d]]
            IN  (c[1] * t.shape[2] + c[2]) * t.shape[3] + c[3] + 1
    IN  Tensor(s, [i \in 1..Len(t.data) |-> t.data[Src(i)]], t.of)

\* t[..., :k]
SliceLast(t, k) ==
    LET n == Len(t.shape)
        F == t.shape[n]
        w == IF k < F THEN k ELSE F
    IN  Tensor(SubSeq(t.shape, 1, n - 1) \o <<w>>,
               [i \in 1..((Len(t.data) \div F) * w) |->
                   t.data[((i - 1) \div w) * F + ((i - 1) % w) + 1]],
               t.of)

\* torch.cat((a, b), dim=2) of two 3-D tensors
CatDim2(a, b) ==
    IF ~a.ok THEN a
    ELSE IF ~b.ok THEN Raise("TypeError")
    ELSE IF a.shape[1] # b.shape[1] \/ a.shape[2] # b.shape[2]
    THEN Raise("RuntimeError")
    ELSE
        LET g1 == a.shape[3]
            g2 == b.shape[3]
            w == g1 + g2
        IN  Tensor(<<a.shape[1], a.shape[2], w>>,
                   [i \in 1..(a.shape[1] * a.shape[2] * w) |->
                       LET r == (i - 1) \div w
                           j == (i - 1) % w
                       IN  IF j < g1 THEN a.data[r * g1 + j + 1]
                           ELSE b.data[r * g2 + (j - g1) + 1]],
                   a.of \o b.of)

\* a numerical layer applied to `arg` with dropout mask `mask`, giving a
\* tensor of shape `shape`
Layer(name, arg, mask, shape) ==
    Tensor(shape,
           [i \in 1..Numel(shape) |-> [src |-> name, at |-> i]],
           <<[name |-> name, mask |-> mask,
              arg |-> [shape |-> arg.shape, data |-> arg.data, of |-> arg.of]]>>)

\* ------------------------------------------------------------------ dropout
\* nn.Dropout (TemporalBlock.dropout1, dropout2): a module, it draws a mask
\* only while self.training; gen is the state of the random generator
NNDropout(gen) ==
    IF training THEN [on |-> TRUE, gen |-> gen] ELSE NoMask

\* F.dropout(input, p=0.1): the functional form, whose `training` parameter
\* is not passed and defaults to True
FDropout(gen) ==
    [on |-> TRUE, gen |-> gen]

\* ------------------------------------------------------------------- STCell
\* config['tcn_dim']: the channels of the TemporalBlocks, one level here
tcn_dim ==
    <<TcnChannels>>

\* np.sum(choice)
SumChoice ==
    choice[1] + choice[2] + choice[3]

\* STCell.output_dim
CellOutputDim ==
    SumChoice * graph_dim

\* STAGGCNModel.output_dim, the in_features of output_linear
ModelOutputDim ==
    SumChoice * graph_dim

\* an entry of output_list that no branch has assigned (the int 0)
Zero ==
    Raise("int")

\* the local cell_output before any assignment
Unbound ==
    Raise("UnboundLocalError")

\* x = self.seq_linear(x) + x
SeqResidual(x) ==
    Layer(<<"seq_linear", 0>>, x, NoMask, x.shape)

\* a layer whose output has the shape of its input
SameShape(name, arg, mask) ==
    Layer(name, arg, mask, arg.shape)

\* a Linear layer on the last dimension of a 2-D tensor
Linear(name, arg, out_features) ==
    Layer(name, arg, NoMask, <<arg.shape[1], out_features>>)

\* atten_input, and tanh(self_atten(atten_input) + atten_input) brought
\* back to [batch*node_num, seq_len]
Attention(x) ==
    ReshapeInfer(
        Permute3(
            SameShape(<<"self_atten", 0>>,
                Permute3(ReshapeInfer(x, <<num_nodes, input_window>>), <<3, 1, 2>>),
                NoMask),
            <<2, 3, 1>>),
        <<input_window>>)

\* t.unsqueeze(1) of a 2-D tensor
Unsqueeze1(t) ==
    Tensor(<<t.shape[1], 1, t.shape[2]>>, t.data, t.of)

\* self.tcn: the TemporalConvNet, whose blocks hold nn.Dropout modules; its
\* output has tcn_dim[-1] channels and the length of its input
Tcn(tcn_input, gen) ==
    Layer(<<"tcn", 0>>, tcn_input, NNDropout(gen),
          <<tcn_input.shape[1], tcn_dim[Len(tcn_dim)], tcn_input.shape[3]>>)

\* torch.reshape(tcn_output, (tcn_output.shape[0], tcn_dim[-1] * seq_len))
FlattenChannels(tcn_output) ==
    Reshape(tcn_output,
            <<tcn_output.shape[1], tcn_dim[Len(tcn_dim)] * input_window>>)

\* the temporal branch: self-attention over the nodes, the TemporalConvNet,
\* tlinear
TcnBranch(x, gen) ==
    ReshapeInfer(
        Linear(<<"tlinear", 0>>,
               FlattenChannels(Tcn(Unsqueeze1(Attention(x)), gen)),
               graph_dim),
        <<num_nodes, graph_dim>>)

\* one gated layer of a graph branch: GATConv on the edges, the learned
\* matrix applied to F.dropout(adp_input, p=0.1), the gate
GatedLayer(name, input, gen) ==
    Layer(name, input, FDropout(gen), <<input.shape[1], graph_dim>>)

\* the spatial branch (edge_index) or the semantic one (dtw_edge_index):
\* four gated layers
GraphBranch(name, x, gen) ==
    ReshapeInfer(
        GatedLayer(<<name, 4>>,
            GatedLayer(<<name, 3>>,
                GatedLayer(<<name, 2>>,
                    GatedLayer(<<name, 1>>, x, gen), gen), gen), gen),
        <<num_nodes, graph_dim>>)

\* the three `if self.choice[i] == 1` blocks: output_list when they are done
\* (x is reassigned in the second and in the third block)
STCellBranches(x, gen) ==
    << IF choice[1] = 1 THEN TcnBranch(x, gen) ELSE Zero,
       IF choice[2] = 1 THEN GraphBranch("sp", SeqResidual(x), gen) ELSE Zero,
       IF choice[3] = 1
       THEN GraphBranch("dtw",
                IF choice[2] = 1 THEN SeqResidual(SeqResidual(x))
                ELSE SeqResidual(x),
                gen)
       ELSE Zero >>

\* the loop taking the first entry of output_list whatever choice says
RECURSIVE ConcatLoopFirstAlways(_, _, _, _)
ConcatLoopFirstAlways(i, step, cell, outs) ==
    IF i > Len(choice) THEN cell
    ELSE IF step = 0
    THEN ConcatLoopFirstAlways(i + 1, step + 1, outs[i], outs)
    ELSE IF choice[i] = 1
    THEN ConcatLoopFirstAlways(i + 1, step, CatDim2(cell, outs[i]), outs)
    ELSE ConcatLoopFirstAlways(i + 1, step, cell, outs)

\* the loop with the arguments of torch.cat in the other order
RECURSIVE ConcatLoopReversed(_, _, _, _)
ConcatLoopReversed(i, step, cell, outs) ==
    IF i > Len(choice) THEN cell
    ELSE IF choice[i] = 1 /\ step = 0
    THEN ConcatLoopReversed(i + 1, step + 1, outs[i], outs)
    ELSE IF choice[i] = 1
    THEN ConcatLoopReversed(i + 1, step, CatDim2(outs[i], cell), outs)
    ELSE ConcatLoopReversed(i + 1, step, cell, outs)

\* the loop `for i in range(len(self.choice))` over output_list
RECURSIVE ConcatLoop(_, _, _, _)
ConcatLoop(i, step, cell, outs) ==
    IF i > Len(choice) THEN cell
    ELSE IF choice[i] = 1 /\ step = 0
    THEN ConcatLoop(i + 1, step + 1, outs[i], outs)
    ELSE IF choice[i] = 1
    THEN ConcatLoop(i + 1, step, CatDim2(cell, outs[i]), outs)
    ELSE ConcatLoop(i + 1, step, cell, outs)

\* the end of STCell.forward: the loop, then the reshape to (-1, output_dim)
CellReshape(cell) ==
    IF ~cell.ok THEN cell ELSE ReshapeInfer(cell, <<CellOutputDim>>)

CellConcat(outs) ==
    CellReshape(ConcatLoop(1, 0, Unbound, outs))

STCellForward(x, gen) ==
    CellConcat(STCellBranches(x, gen))

\* ------------------------------------------------------------- STAGGCNModel
\* self.output_linear, when STCell.forward has returned
OutputLinear(st_output) ==
    IF ~st_output.ok THEN st_output
    ELSE IF st_output.shape[2] # ModelOutputDim THEN Raise("RuntimeError")
    ELSE Linear(<<"output_linear", 0>>, st_output, output_window)

STAGGCNModelForward(x, gen) ==
    OutputLinear(STCellForward(x, gen))

\* ------------------------------------------------------------------ STAGGCN
\* the batches the framework hands over: X of shape (B, input_window,
\* num_nodes, feature_dim) with pairwise distinct elements (the symbols
\* [src, at]), y likewise with
\* output_window; v shifts the elements of the feature channels above 0
BatchX(B, v) ==
    LET shape == <<B, input_window, num_nodes, feature_dim>>
        n == Numel(shape)
    IN  Tensor(shape,
               [i \in 1..n |->
                   [src |-> <<"X", 0>>,
                    at |-> IF (i - 1) % feature_dim = 0 THEN i ELSE i + n * v]],
               <<>>)

BatchY(B, v) ==
    LET shape == <<B, output_window, num_nodes, feature_dim>>
    IN  Tensor(shape,
               [i \in 1..Numel(shape) |-> [src |-> <<"y", 0>>, at |-> i + v]],
               <<>>)

Batches ==
    { [X |-> BatchX(B, v), y |-> BatchY(B, v)] :
        B \in {1, MaxBatch}, v \in {0, 1} }

\* FlattenInput without the permute(0, 2, 1)
FlattenNoPermute(X) ==
    ReshapeInfer(SelectFeature0(X), <<X.shape[3]>>)

\* x = batch['X']; x = x[:, :, :, 0].permute(0, 2, 1);
\* x = x.reshape(-1, x.shape[2])
FlattenInput(X) ==
    ReshapeInfer(Permute3(SelectFeature0(X), <<1, 3, 2>>), <<X.shape[2]>>)

\* torch.reshape(outputs, (self.batch_size, self.output_window,
\*                         self.num_nodes, 1))
AdjustOutput(out) ==
    Reshape(out, <<batch_size, output_window, num_nodes, 1>>)

\* a call made while a method runs: the callee, its arguments, its outcome
Event(fn, args, res) ==
    [fn |-> fn, args |-> args, ret |-> res]

\* STAGGCN.forward: what it hands to the inner model, what the inner model
\* returns, the calls it makes to methods of self or to the scaler and the
\* loss (none), and what it returns or raises
ForwardResult(x, out) ==
    [x_in |-> x, outputs |-> out, trace |-> <<>>,
     ret |-> IF out.ok THEN AdjustOutput(out) ELSE out]

ForwardOn(x, gen) ==
    ForwardResult(x, STAGGCNModelForward(x, gen))

ForwardCall(b, gen) ==
    ForwardOn(FlattenInput(b.X), gen)

\* predict returning forward's result without its last dimension
Squeezed(b, f) ==
    [f EXCEPT !.trace = <<Event("forward", <<b>>, f.ret)>> \o f.trace,
              !.ret = IF f.ret.ok
                      THEN Reshape(f.ret, SubSeq(f.ret.shape, 1, 3))
                      ELSE f.ret]

\* predict calling forward again when forward has raised
Retried(b, f) ==
    [f EXCEPT !.trace =
        IF f.ret.ok THEN <<Event("forward", <<b>>, f.ret)>>
        ELSE <<Event("forward", <<b>>, f.ret), Event("forward", <<b>>, f.ret)>>]

\* STAGGCN.predict
Returned(b, f) ==
    [f EXCEPT !.trace = <<Event("forward", <<b>>, f.ret)>> \o f.trace]

PredictCall(b, gen) ==
    Returned(b, ForwardCall(b, gen))

\* self._scaler.inverse_transform: elementwise, the scaler is not in this file
InverseTransform(t) ==
    Tensor(t.shape,
           [i \in 1..Len(t.data) |-> [src |-> <<"inverse_transform", 0>>, arg |-> t.data[i]]],
           t.of)

\* loss.masked_mae_torch(preds, labels, null_val)
MaskedMae(preds, labels, null_val) ==
    [ok |-> TRUE, loss |-> "masked_mae_torch", preds |-> preds,
     labels |-> labels, null_val |-> null_val]

\* the end of calculate_loss, from the loss function on
LossCalled(p, true_in, y_true, pred_in, y_predicted, res) ==
    [p EXCEPT
        !.trace = p.trace \o
            << Event("inverse_transform", <<true_in>>, y_true),
               Event("inverse_transform", <<pred_in>>, y_predicted),
               Event("masked_mae_torch", <<res.preds, res.labels, res.null_val>>, res) >>,
        !.ret = res]

\* steps 3 to 5 handing the loss its arguments in the other order
LossSwapped(p, true_in, y_true, pred_in, y_predicted) ==
    LossCalled(p, true_in, y_true, pred_in, y_predicted,
               MaskedMae(y_true, y_predicted, 0))

\* steps 3 to 5 of calculate_loss
LossOf(p, true_in, y_true, pred_in, y_predicted) ==
    LossCalled(p, true_in, y_true, pred_in, y_predicted,
               MaskedMae(y_predicted, y_true, 0))

Scaled(p, true_in, pred_in) ==
    LossOf(p, true_in, InverseTransform(true_in),
           pred_in, InverseTransform(pred_in))

\* calculate_loss once self.predict(batch) has returned or raised: p
AfterPredict(b, p) ==
    IF ~p.ret.ok THEN p
    ELSE Scaled(p, SliceLast(b.y, output_dim), SliceLast(p.ret, output_dim))

Called(b, p) ==
    [p EXCEPT !.trace = <<Event("predict", <<b>>, p.ret)>> \o p.trace]

\* STAGGCN.calculate_loss
CalculateLossCall(b, gen) ==
    AfterPredict(b, Called(b, PredictCall(b, gen)))

\* ------------------------------------------------------------------ actions
None ==
    Raise("none")

\* the data loader yields the next batch
NextBatch ==
    /\ batch' \in Batches
    /\ op' = "none"
    /\ x_in' = None
    /\ outputs' = None
    /\ trace' = <<>>
    /\ ret' = None
    /\ UNCHANGED <<cfgVars, training, mode, cellVars, tcnVars>>

Record(name, r) ==
    /\ batch # None
    /\ op' = name
    /\ mode' = training
    /\ x_in' = r.x_in
    /\ outputs' = r.outputs
    /\ trace' = r.trace
    /\ ret' = r.ret
    /\ UNCHANGED <<cfgVars, training, batch, cellVars, tcnVars>>

\* two states of the random generator
Gens ==
    {0, 1}

\* the framework calls model.forward(batch), model.predict(batch) or
\* model.calculate_loss(batch) on the current batch; the random generator
\* is in some state
Forward ==
    \E gen \in Gens : Record("forward", ForwardCall(batch, gen))

Predict ==
    \E gen \in Gens : Record("predict", PredictCall(batch, gen))

CalculateLoss ==
    \E gen \in Gens : Record("calculate_loss", CalculateLossCall(batch, gen))

\* model.train() and model.eval() of nn.Module
Train ==
    /\ training' = TRUE
    /\ UNCHANGED <<cfgVars, callVars, cellVars, tcnVars>>

Eval ==
    /\ training' = FALSE
    /\ UNCHANGED <<cfgVars, callVars, cellVars, tcnVars>>

NoCall ==
    /\ op = "none"
    /\ mode = TRUE
    /\ batch = None
    /\ x_in = None
    /\ outputs = None
    /\ trace = <<>>
    /\ ret = None

CellIdle ==
    /\ cell_x = None
    /\ output_list = <<>>
    /\ cell_output = None

TcnIdle ==
    /\ kernel_size = 0
    /\ num_levels = 0
    /\ tcn_len = 0
    /\ level = 0
    /\ deps = <<>>

Choices ==
    { c \in [1..3 -> {0, 1}] : TRUE }

\* the model after STAGGCN.__init__: a module is constructed in training
\* mode; at least one branch is enabled, so that output_linear has inputs;
\* every size is the smallest or the largest of its range
Init ==
    /\ batch_size \in {1, MaxBatch}
    /\ num_nodes \in {1, MaxNodes}
    /\ input_window \in {1, MaxWindow}
    /\ output_window \in {1, MaxWindow}
    /\ feature_dim \in {1, MaxFeat}
    /\ output_dim \in {1, feature_dim}
    /\ graph_dim = MaxGraphDim
    /\ choice \in { c \in Choices : c[1] + c[2] + c[3] >= 1 }
    /\ training = TRUE
    /\ NoCall
    /\ CellIdle
    /\ TcnIdle

Next ==
    \/ NextBatch
    \/ Forward
    \/ Predict
    \/ CalculateLoss
    \/ Train
    \/ Eval

Spec ==
    Init /\ [][Next]_vars

\* ----------------------------------------------- STCell.forward on its own
\* an input x of shape [batch*node_num, seq_len]
CellInput(batch_n) ==
    Tensor(<<batch_n * num_nodes, input_window>>,
           [i \in 1..(batch_n * num_nodes * input_window) |->
               [src |-> <<"X", 0>>, at |-> i]],
           <<>>)

CellForward ==
    \E batch_n \in 1..MaxBatch, gen \in Gens :
        /\ cell_x' = CellInput(batch_n)
        /\ output_list' = STCellBranches(CellInput(batch_n), gen)
        /\ cell_output' = STCellForward(CellInput(batch_n), gen)
        /\ UNCHANGED <<cfgVars, training, callVars, tcnVars>>

\* an STCell after STCell.__init__, with any choice
CellInit ==
    /\ batch_size = 1
    /\ num_nodes \in 1..MaxNodes
    /\ input_window \in 1..MaxWindow
    /\ output_window = 1
    /\ feature_dim = 1
    /\ output_dim = 1
    /\ graph_dim \in 1..MaxGraphDim
    /\ choice \in Choices
    /\ training = TRUE
    /\ NoCall
    /\ CellIdle
    /\ TcnIdle

CellNext ==
    \/ CellForward
    \/ Train
    \/ Eval

SpecCell ==
    CellInit /\ [][CellNext]_vars

\* ---------------------------------------------------------- TemporalConvNet
\* F.pad as nn.Conv1d does it: `padding` zeros before and after
Pad(x, padding) ==
    [i \in 1..(Len(x) + 2 * padding) |->
        IF i > padding /\ i <= padding + Len(x) THEN x[i - padding] ELSE {}]

\* nn.Conv1d(kernel_size, stride=1, padding, dilation): output index j reads
\* the padded input at j, j + dilation, ..., j + (kernel_size-1)*dilation
Conv1d(x, k, padding, dilation) ==
    [j \in 1..(Len(x) + 2 * padding - dilation * (k - 1)) |->
        UNION { Pad(x, padding)[j + m * dilation] : m \in 0..(k - 1) }]

\* a Chomp1d that drops the first chomp_size steps
ChompFront(x, chomp_size) ==
    IF chomp_size = 0 THEN <<>>
    ELSE [j \in 1..(Len(x) - chomp_size) |-> x[j + chomp_size]]

\* Chomp1d.forward: x[:, :, :-self.chomp_size]
Chomp1d(x, chomp_size) ==
    IF chomp_size = 0 THEN <<>>
    ELSE [j \in 1..(Len(x) - chomp_size) |-> x[j]]

\* TemporalBlock.net: conv1, chomp1, relu1, dropout1, conv2, chomp2, relu2,
\* dropout2 (ReLU and Dropout act on each element by itself)
BlockNet(x, k, padding, dilation) ==
    Chomp1d(Conv1d(Chomp1d(Conv1d(x, k, padding, dilation), padding),
                   k, padding, dilation),
            padding)

\* self.relu(out + res): res is x or a Conv1d of kernel size 1 on x
Residual(out, x) ==
    [j \in 1..Len(x) |-> out[j] \cup x[j]]

\* TemporalBlock.forward of level i, with dilation 2^i and padding
\* (kernel_size-1) * 2^i
TemporalBlock(x, k, i) ==
    Residual(BlockNet(x, k, (k - 1) * (2 ^ i), 2 ^ i), x)

\* the next block of self.network runs
BlockStep ==
    /\ level < num_levels
    /\ deps' = TemporalBlock(deps, kernel_size, level)
    /\ level' = level + 1
    /\ UNCHANGED <<cfgVars, training, callVars, cellVars,
                   kernel_size, num_levels, tcn_len>>

\* a TemporalConvNet after its constructor, and an input of tcn_len steps:
\* step t of the input depends on step t
TcnInit ==
    /\ batch_size = 1
    /\ num_nodes = 1
    /\ input_window = 1
    /\ output_window = 1
    /\ feature_dim = 1
    /\ output_dim = 1
    /\ graph_dim = 1
    /\ choice = <<1, 0, 0>>
    /\ training \in BOOLEAN
    /\ NoCall
    /\ CellIdle
    /\ kernel_size \in 2..MaxKernel
    /\ num_levels \in 1..MaxLevels
    /\ tcn_len \in 1..MaxSeqLen
    /\ level = 0
    /\ deps = [t \in 1..tcn_len |-> {t}]

TcnNext ==
    BlockStep

SpecTCN ==
    TcnInit /\ [][TcnNext]_vars

\* ------------------------------------------------------- properties of Spec
\* the batch size of the current batch
B ==
    batch.X.shape[1]

Calls(fn) ==
    { i \in DOMAIN trace : trace[i].fn = fn }

\* a = t[..., :k], stated on the indices
IsFirstChannels(a, t, k) ==
    LET n == Len(t.shape)
        F == t.shape[n]
        w == IF k < F THEN k ELSE F
    IN  /\ a.ok
        /\ a.shape = [t.shape EXCEPT ![n] = w]
        /\ Len(a.data) = (Len(t.data) \div F) * w
        /\ \A q \in 0..((Len(t.data) \div F) - 1), f \in 0..(w - 1) :
               a.data[q * w + f + 1] = t.data[q * F + f + 1]

\* C1: forward returns a tensor of shape (B, output_window, num_nodes, 1)
\* for every batch of B >= 1 samples, whatever the configured batch_size
C1_ForwardShape ==
    op = "forward" =>
        /\ ret.ok
        /\ ret.shape = <<B, output_window, num_nodes, 1>>

\* C2: element [b, t, n, 0] of what forward returns is the inner model's
\* output in row b * num_nodes + n, column t
C2_OutputLayout ==
    (op = "forward" /\ ret.ok) =>
        \A b \in 0..(batch_size - 1), n \in 0..(num_nodes - 1),
           t \in 0..(output_window - 1) :
            ret.data[(b * output_window + t) * num_nodes + n + 1]
                = outputs.data[(b * num_nodes + n) * output_window + t + 1]

\* C3: calculate_loss calls predict once, applies inverse_transform once to
\* the first output_dim channels of batch['y'] and once to those of the
\* prediction, and returns masked_mae_torch(prediction, truth, 0) of the two
\* inverse-transformed tensors
C3_CalculateLoss ==
    (op = "calculate_loss" /\ ret.ok) =>
        /\ Cardinality(Calls("predict")) = 1
        /\ Cardinality(Calls("inverse_transform")) = 2
        /\ Cardinality(Calls("masked_mae_torch")) = 1
        /\ \E ip \in Calls("predict"), it \in Calls("inverse_transform"),
              iq \in Calls("inverse_transform"), il \in Calls("masked_mae_torch") :
               /\ it # iq
               /\ trace[ip].args = <<batch>>
               /\ IsFirstChannels(trace[it].args[1], batch.y, output_dim)
               /\ IsFirstChannels(trace[iq].args[1], trace[ip].ret, output_dim)
               /\ trace[il].args = <<trace[iq].ret, trace[it].ret, 0>>
               /\ ret = trace[il].ret
               /\ ret.preds = trace[iq].ret
               /\ ret.labels = trace[it].ret
               /\ ret.null_val = 0

C3_Witness ==
    /\ op = "calculate_loss"
    /\ ret.ok
    /\ output_dim < feature_dim
    /\ num_nodes > 1

\* C4: predict calls forward exactly once, with its own batch, makes no
\* other call, and returns what that call returned or raised
C4_PredictDelegates ==
    op = "predict" =>
        /\ Len(trace) = 1
        /\ trace[1].fn = "forward"
        /\ trace[1].args = <<batch>>
        /\ ret = trace[1].ret

C4_Witness ==
    /\ op = "predict"
    /\ ret.ok
    /\ num_nodes > 1

\* C5: in evaluation mode two predict calls on the same batch return the
\* same tensor
C5_EvalDeterministic ==
    [][ ( /\ op = "predict" /\ ~mode
          /\ op' = "predict" /\ ~mode'
          /\ batch' = batch )
        => ret' = ret ]_vars

\* C6: when forward raises, predict and calculate_loss raise that failure,
\* forward is not called again, and nothing is called after it: neither
\* inverse_transform nor the loss
C6_NoRecovery ==
    \A i \in DOMAIN trace :
        (op \in {"predict", "calculate_loss"}
            /\ trace[i].fn = "forward" /\ ~trace[i].ret.ok) =>
            /\ ret = trace[i].ret
            /\ Calls("forward") = {i}
            /\ Calls("masked_mae_torch") = {}
            /\ \A j \in Calls("inverse_transform") : j < i
            /\ \A j \in DOMAIN trace : j <= i

C6_Witness ==
    /\ op = "calculate_loss"
    /\ ~ret.ok
    /\ \E i \in DOMAIN trace : trace[i].fn = "forward" /\ ~trace[i].ret.ok

\* C7: the inner model's input has row b * num_nodes + n, column t equal to
\* X[b, t, n, 0], and is the same for every batch that differs from this
\* one in feature channels >= 1 only
C7_InputLayout ==
    op # "none" =>
        /\ x_in.ok
        /\ x_in.shape = <<B * num_nodes, input_window>>
        /\ \A b \in 0..(B - 1), n \in 0..(num_nodes - 1),
              t \in 0..(input_window - 1) :
               x_in.data[(b * num_nodes + n) * input_window + t + 1]
                   = batch.X.data[((b * input_window + t) * num_nodes + n)
                                      * feature_dim + 1]
        /\ \A other \in Batches :
               ( /\ other.X.shape = batch.X.shape
                 /\ \A i \in DOMAIN batch.X.data :
                        (i - 1) % feature_dim = 0
                            => other.X.data[i] = batch.X.data[i] )
               => FlattenInput(other.X) = x_in

C7_Witness ==
    /\ op = "forward"
    /\ B > 1
    /\ num_nodes > 1
    /\ input_window > 1
    /\ feature_dim > 1
    /\ \E other \in Batches :
           other.X.shape = batch.X.shape /\ other.X # batch.X

\* --------------------------------------- properties of SpecCell and SpecTCN
\* the batch size of the x that STCell.forward was called on
CellB ==
    cell_x.shape[1] \div num_nodes

\* the number of enabled branches before branch i
EnabledBefore(i) ==
    Cardinality({ j \in 1..(i - 1) : choice[j] = 1 })

\* C8: with at least one branch enabled STCell.forward returns a tensor of
\* shape [batch*node_num, sum(choice)*graph_dim] whose rows are the rows of
\* the enabled branches' outputs side by side, in the order temporal,
\* spatial, semantic; its width is the in_features of output_linear
C8_CellConcat ==
    (cell_output # None /\ SumChoice >= 1) =>
        /\ cell_output.ok
        /\ cell_output.shape = <<CellB * num_nodes, SumChoice * graph_dim>>
        /\ cell_output.shape[2] = ModelOutputDim
        /\ \A i \in 1..3 :
               choice[i] = 1 =>
                   /\ output_list[i].ok
                   /\ output_list[i].shape = <<CellB, num_nodes, graph_dim>>
                   /\ \A r \in 0..(CellB * num_nodes - 1), g \in 0..(graph_dim - 1) :
                          cell_output.data[r * SumChoice * graph_dim
                                             + EnabledBefore(i) * graph_dim + g + 1]
                              = output_list[i].data[r * graph_dim + g + 1]

C8_Witness ==
    /\ cell_output # None
    /\ choice = <<1, 1, 1>>
    /\ CellB > 1
    /\ num_nodes > 1
    /\ graph_dim > 1

\* C10: with choice = [0, 0, 0] nothing is assigned to cell_output and
\* STCell.forward raises; it returns a tensor only when a branch is enabled
C10_NoBranch ==
    cell_output # None =>
        /\ (SumChoice = 0 =>
               /\ ~cell_output.ok
               /\ cell_output = Raise("UnboundLocalError")
               /\ \A i \in 1..3 : output_list[i] = Zero)
        /\ (cell_output.ok => \E i \in 1..3 : choice[i] = 1)

C10_Witness ==
    /\ cell_output # None
    /\ choice = <<0, 0, 0>>
    /\ ~cell_output.ok

\* C9: after any number of TemporalBlocks the value at time index t depends
\* only on input values at time indices <= t, and the length is unchanged
C9_Causal ==
    /\ Len(deps) = tcn_len
    /\ \A t \in 1..Len(deps) : \A u \in deps[t] : u <= t

C9_Witness ==
    /\ level = num_levels
    /\ num_levels > 1
    /\ kernel_size > 2
    /\ \E t \in 1..Len(deps) : Cardinality(deps[t]) > 4

====
